---- MODULE Spec2Model ----
(***************************************************************************)
(* Model of the risk budget and the candidate-signal lifecycle of the      *)
(* forex trading bot: RiskManager (src/trading/risk_manager.py),           *)
(* SignalGenerator (src/trading/signal_generator.py), the Telegram         *)
(* confirmation handlers and the confirmation-timeout thread               *)
(* (src/communication/telegram_bot.py), the dashboard confirm button       *)
(* (src/ui/streamlit_app.py) and the scan loop (src/main.py).              *)
(*                                                                         *)
(* Units.  Percentages are held in 1/10000 of a percent, so                *)
(* max_risk_percent = 2.0 is 20000.  The balance is held in hundreds of    *)
(* currency units (10000.00 is 100) and risk amounts in 1/10000 of a       *)
(* currency unit (a risk_amount of 100.00 is 1000000), which makes         *)
(* "balance * percent / 100" the exact product balance * percent, and      *)
(* "risk_amount / balance * 100" the quotient risk_amount \div balance,    *)
(* without remainder for the balances and the depths modelled.  Strengths, *)
(* probabilities and risk/reward ratios are held in tenths.                *)
(***************************************************************************)
EXTENDS Integers, Sequences, FiniteSets

\* ------------------------------------------------------------------ bounds
MaxSignals == 3
MaxTicks == 2
MaxPending == 1
MaxFused == 2

\* ------------------------------------------------------- program constants
max_risk_percent == 20000
max_daily_risk_percent == 50000
max_weekly_risk_percent == 100000
min_risk_reward == 15
MinStrength == 400
SignalHistoryLimit == 100
RiskHistoryLimit == 100
DaysPerWeek == 7
WeeksPerYear == 52

\* ------------------------------------------------------------- input sets
Directions == {"buy", "sell", "neutral"}
Strengths == {30, 80}
Probabilities == {90}
Confidences == {20, 90}
RiskRewards == {10, 20}
Balances == {20, 100}
TickDays == {1, 7, 364}
Terminal == {"executed", "rejected", "expired"}
Ids == 1..(MaxSignals + 1)

VARIABLES
    now,              \* the calendar day datetime.now().date() reports
    ticks,            \* clock advances so far
    balance,          \* account balance the broker reports
    opened,           \* broker: positions opened, per signal id
    daily_risk, weekly_risk, last_reset_day, last_reset_week, risk_history,
    signal_history, next_id,
    fusion,           \* what the last generate_signal call blended and returned
    pending_signals, timeout_pc,
    tg,               \* frame of the Telegram handler being run
    db,               \* frame of the dashboard session
    an,               \* frame and results of the AnalysisEngine.analyze call
    lm,               \* input and output of the last _merge_levels call
    cycle,            \* frame of the scan cycle of _trading_loop
    reply,            \* what the last _confirm_signal call told the user
    rm,               \* query of the RiskManager and its answer
    st                \* the last _calculate_sl_tp call and its result

vars == <<now, ticks, balance, opened,
          daily_risk, weekly_risk, last_reset_day, last_reset_week, risk_history,
          signal_history, next_id, fusion, pending_signals, timeout_pc, tg, db,
          an, lm, cycle, reply, rm, st>>

engineVars == <<an, lm, cycle, reply, rm, st>>

tradingVars == <<now, ticks, balance, opened,
                 daily_risk, weekly_risk, last_reset_day, last_reset_week,
                 risk_history, signal_history, next_id, fusion,
                 pending_signals, timeout_pc, tg, db, reply, rm, st>>

envVars == <<now, ticks, balance>>
riskVars == <<daily_risk, weekly_risk, last_reset_day, last_reset_week, risk_history>>
trackVars == <<daily_risk, weekly_risk, last_reset_day, last_reset_week>>
sigVars == <<signal_history, next_id, fusion>>
tgVars == <<pending_signals, timeout_pc, tg>>

\* ------------------------------------------------------------ RiskManager

\* date.isocalendar()[1]: the week number within the year, without the year
_get_week_number(d) == ((d \div DaysPerWeek) % WeeksPerYear) + 1

\* the ISO week a day lies in, counted from day 0 (year and week together)
IsoWeek(d) == d \div DaysPerWeek

Tracking == [daily_risk |-> daily_risk, weekly_risk |-> weekly_risk,
             last_reset_day |-> last_reset_day, last_reset_week |-> last_reset_week]

_update_risk_tracking(t, today) ==
    LET current_week == _get_week_number(today)
        dayReset == today # t.last_reset_day
        weekReset == current_week # t.last_reset_week
    IN [daily_risk |-> IF dayReset THEN 0 ELSE t.daily_risk,
        weekly_risk |-> IF weekReset THEN 0 ELSE t.weekly_risk,
        last_reset_day |-> IF dayReset THEN today ELSE t.last_reset_day,
        last_reset_week |-> IF weekReset THEN current_week ELSE t.last_reset_week]

DefaultParams == [computed |-> FALSE, risk_amount |-> 0, risk_percent |-> 0,
                  max_allowed |-> TRUE, risk_reward_ratio |-> 0]

\* a sizing that asks for the full ceiling at every success probability
FullRiskPercent(success_probability) ==
    max_risk_percent

\* lines 119-129 of calculate_risk_params
StepRiskPercent(success_probability) ==
    IF success_probability >= 800 THEN max_risk_percent
    ELSE IF success_probability >= 700 THEN (max_risk_percent * 8) \div 10
    ELSE IF success_probability >= 600 THEN (max_risk_percent * 6) \div 10
    ELSE (max_risk_percent * 5) \div 10

Min2(a, b) == IF a <= b THEN a ELSE b

Max2(a, b) == IF a >= b THEN a ELSE b

\* SizeRisk with the weekly ceiling left out of available_risk
SizeRiskDailyOnly(signal, bal, t) ==
    LET requested_percent == StepRiskPercent(signal.success_probability)
        available_risk == (max_daily_risk_percent - t.daily_risk) * bal
        requested_amount == bal * requested_percent
        capped == requested_amount > available_risk
        risk_amount == IF capped THEN available_risk ELSE requested_amount
        risk_percent == IF capped THEN risk_amount \div bal ELSE requested_percent
    IN [computed |-> TRUE, risk_amount |-> risk_amount, risk_percent |-> risk_percent,
        max_allowed |-> (risk_amount <= available_risk),
        risk_reward_ratio |-> signal.risk_reward]

\* the sizing part of calculate_risk_params, on tracking t already updated
SizeRisk(signal, bal, t) ==
    LET requested_percent == StepRiskPercent(signal.success_probability)
        remaining_daily_risk == (max_daily_risk_percent - t.daily_risk) * bal
        remaining_weekly_risk == (max_weekly_risk_percent - t.weekly_risk) * bal
        available_risk == Min2(remaining_daily_risk, remaining_weekly_risk)
        requested_amount == bal * requested_percent
        capped == requested_amount > available_risk
        risk_amount == IF capped THEN available_risk ELSE requested_amount
        risk_percent == IF capped THEN risk_amount \div bal ELSE requested_percent
    IN [computed |-> TRUE, risk_amount |-> risk_amount, risk_percent |-> risk_percent,
        max_allowed |-> (risk_amount <= available_risk),
        risk_reward_ratio |-> signal.risk_reward]

\* calculate_risk_params: info_ok is whether the broker supplied both the
\* account and the symbol information; returns the params and the tracking
calculate_risk_params(signal, info_ok, bal, t, today) ==
    IF ~info_ok
    THEN [params |-> DefaultParams, tracking |-> t]
    ELSE LET t2 == _update_risk_tracking(t, today)
         IN [params |-> SizeRisk(signal, bal, t2), tracking |-> t2]

\* can_open_position: account_ok is its own get_account_info, limit_hit is
\* either ceiling of check_position_limits, info_ok and margin_ok belong to
\* the nested calculate_risk_params
can_open_position(signal, account_ok, limit_hit, info_ok, margin_ok, bal, t, today) ==
    IF ~account_ok THEN [ok |-> FALSE, reason |-> "account", tracking |-> t]
    ELSE IF limit_hit THEN [ok |-> FALSE, reason |-> "positions", tracking |-> t]
    ELSE LET r == calculate_risk_params(signal, info_ok, bal, t, today)
         IN IF r.params.computed /\ ~margin_ok
            THEN [ok |-> FALSE, reason |-> "margin", tracking |-> r.tracking]
            ELSE IF ~r.params.max_allowed
            THEN [ok |-> FALSE, reason |-> "risk_limit", tracking |-> r.tracking]
            ELSE IF r.params.risk_reward_ratio < min_risk_reward
            THEN [ok |-> FALSE, reason |-> "risk_reward", tracking |-> r.tracking]
            ELSE [ok |-> TRUE, reason |-> "ok", tracking |-> r.tracking]

\* ---------------------------------------- the lot, the margin and the checks

max_open_positions == 5
max_positions_per_symbol == 2

\* Python's round(n / d): the nearest integer, a tie to the even one
round(n, d) ==
    LET q == n \div d
        r == n % d
    IN IF 2 * r > d THEN q + 1
       ELSE IF 2 * r < d THEN q
       ELSE IF q % 2 = 0 THEN q ELSE q + 1

\* symbol_info of the broker: volumes in hundredths of a lot
SymbolInfos ==
    {[name |-> "EURUSD", contract_size |-> 100000, digits |-> 5, volume_min |-> 1, volume_max |-> 10000],
     [name |-> "USDJPY", contract_size |-> 100000, digits |-> 3, volume_min |-> 1, volume_max |-> 10000],
     [name |-> "GER40", contract_size |-> 100000, digits |-> 5, volume_min |-> 10, volume_max |-> 50]}

\* pip_factor in 1/10000: 0.01 for a pair that ends in JPY, else 0.0001
PipFactor(symbol_info) == IF symbol_info.name = "USDJPY" THEN 100 ELSE 1

\* pip_value = pip_factor * contract_size / 10**digits, in 1/10000 of the
\* account currency
PipValue(symbol_info) ==
    (PipFactor(symbol_info) * symbol_info.contract_size) \div (10 ^ symbol_info.digits)

\* int(distance / pip_factor) for a distance in tenths of a pip: the
\* fraction is cut off, towards zero
ToPips(distance) == IF distance >= 0 THEN distance \div 10 ELSE -((-distance) \div 10)

\* the clamp without the configured max_lot_size
ClampToBrokerOnly(lot, volume_min, volume_max, max_lot_size) ==
    Max2(volume_min, Min2(lot, volume_max))

\* line 160: max(min_lot, min(lot_size, max_lot, max_allowed_lot))
ClampLot(lot, volume_min, volume_max, max_lot_size) ==
    Max2(volume_min, Min2(lot, Min2(volume_max, max_lot_size)))

\* lines 146-160: the lot in hundredths, from the risk amount in 1/10000
LotSize(risk_amount, sl_pips, pip_value, volume_min, volume_max, max_lot_size) ==
    LET lot == IF sl_pips > 0 /\ pip_value > 0
               THEN round(100 * risk_amount, sl_pips * pip_value)
               ELSE 1
    IN ClampLot(lot, volume_min, volume_max, max_lot_size)

\* the params calculate_risk_params returns without account or symbol
\* information
DefaultRiskParams ==
    [computed |-> FALSE, lot_size |-> 1, risk_amount |-> 0, risk_percent |-> 0,
     max_allowed |-> TRUE, sl_pips |-> 0, pip_value |-> 0, risk_reward_ratio |-> 0,
     margin_required |-> 0]

\* calculate_risk_params in full, on tracking t already updated. q is the
\* call: the candidate's success_probability and its sl_distance and
\* tp_distance (tenths of a pip), the symbol_info, the configured
\* max_lot_size and margin_rate, the margin the broker asks per 0.01 lot
\* (0 when calculate_margin fails)
RiskParams(q, bal, t) ==
    LET sl_pips == ToPips(q.sl_distance)
        risk_reward == IF q.sl_distance > 0 THEN (10 * q.tp_distance) \div q.sl_distance ELSE 0
        sized == SizeRisk([success_probability |-> q.success_probability,
                           risk_reward |-> risk_reward], bal, t)
        pip_value == PipValue(q.symbol_info)
        lot_size == LotSize(sized.risk_amount, sl_pips, pip_value, q.symbol_info.volume_min,
                            q.symbol_info.volume_max, q.max_lot_size)
    IN [computed |-> TRUE, lot_size |-> lot_size, risk_amount |-> sized.risk_amount,
        risk_percent |-> sized.risk_percent, max_allowed |-> sized.max_allowed,
        sl_pips |-> sl_pips, pip_value |-> pip_value,
        risk_reward_ratio |-> risk_reward,
        margin_required |-> lot_size * q.margin_rate]

\* check_position_limits: positions_ok is whether get_positions answered;
\* after an exception both ceilings read as not reached
check_position_limits(q) ==
    IF ~q.positions_ok \/ q.total_positions = 0
    THEN [max_positions_reached |-> FALSE, symbol_reached |-> FALSE]
    ELSE [max_positions_reached |-> q.total_positions >= max_open_positions,
          symbol_reached |-> q.symbol_positions >= max_positions_per_symbol]

\* can_open_position in full: the checks in the order of the code
CanOpen(q, bal, t, today) ==
    IF ~q.account_ok THEN [ok |-> FALSE, reason |-> "account", params |-> DefaultRiskParams, tracking |-> t]
    ELSE LET limits == check_position_limits(q)
             t2 == IF q.info_ok THEN _update_risk_tracking(t, today) ELSE t
             params == IF q.info_ok THEN RiskParams(q, bal, t2) ELSE DefaultRiskParams
             reason == IF limits.max_positions_reached THEN "positions"
                       ELSE IF limits.symbol_reached THEN "symbol_positions"
                       ELSE IF params.margin_required > q.free_margin THEN "margin"
                       ELSE IF ~params.max_allowed THEN "risk_limit"
                       ELSE IF params.lot_size < 1 THEN "min_lot"
                       ELSE IF params.risk_reward_ratio < min_risk_reward THEN "risk_reward"
                       ELSE "ok"
             early == reason \in {"positions", "symbol_positions"}
         IN [ok |-> reason = "ok", reason |-> reason,
             params |-> IF early THEN DefaultRiskParams ELSE params,
             tracking |-> IF early THEN t ELSE t2]

SetTracking(t) ==
    /\ daily_risk' = t.daily_risk
    /\ weekly_risk' = t.weekly_risk
    /\ last_reset_day' = t.last_reset_day
    /\ last_reset_week' = t.last_reset_week

Last(s, n) == IF Len(s) > n THEN SubSeq(s, Len(s) - n + 1, Len(s)) ELSE s

\* update_risk_history(trade_data)
update_risk_history(id, risk_amount, account_ok) ==
    IF ~account_ok
    THEN UNCHANGED riskVars
    ELSE LET risk_percent == IF balance > 0 THEN risk_amount \div balance ELSE 0
             risk_entry == [id |-> id, risk_percent |-> risk_percent]
         IN /\ risk_history' = Last(Append(risk_history, risk_entry), RiskHistoryLimit)
            /\ daily_risk' = daily_risk + risk_percent
            /\ weekly_risk' = weekly_risk + risk_percent
            /\ UNCHANGED <<last_reset_day, last_reset_week>>

\* -------------------------------------------------------- SignalGenerator

\* _combine_signals with analysis_weight 0.7 and prediction_weight 0.3;
\* scores are in tenths
_combine_signals(a_signal, a_strength, a_probability, p_direction, p_confidence) ==
    LET buy_score == (IF a_signal = "buy" THEN a_strength * 7 ELSE 0)
                     + (IF p_direction = "buy" THEN p_confidence * 3 ELSE 0)
        sell_score == (IF a_signal = "sell" THEN a_strength * 7 ELSE 0)
                      + (IF p_direction = "sell" THEN p_confidence * 3 ELSE 0)
        probability == a_probability * 7 + p_confidence * 3
    IN IF buy_score > sell_score + 100
       THEN [signal |-> "buy", strength |-> buy_score, success_probability |-> probability]
       ELSE IF sell_score > buy_score + 100
       THEN [signal |-> "sell", strength |-> sell_score, success_probability |-> probability]
       ELSE [signal |-> "neutral",
             strength |-> (IF buy_score >= sell_score THEN buy_score ELSE sell_score) \div 2,
             success_probability |-> 0]

\* Emits without the gate on the risk/reward ratio
EmitsWithoutRiskRewardGate(signal_data, risk_reward) ==
    ~(signal_data.signal = "neutral" \/ signal_data.strength < MinStrength)

\* Emits without the gate on the blended signal
EmitsWithoutSignalGate(signal_data, risk_reward) ==
    ~(risk_reward < min_risk_reward)

\* whether generate_signal gets past its two gates on the blended signal and
\* on the risk/reward ratio
Emits(signal_data, risk_reward) ==
    /\ ~(signal_data.signal = "neutral" \/ signal_data.strength < MinStrength)
    /\ ~(risk_reward < min_risk_reward)

NoFusion == [signal |-> "neutral", strength |-> 0, success_probability |-> 0,
             risk_reward |-> 0, returned |-> FALSE]

\* generate_signal: failed is an error record from the analysis or the
\* forecaster, or a missing last price, which end the call before the blend;
\* risk_reward is what _calculate_risk_reward returns for the SL/TP chosen.
\* Sets signal_history, next_id and fusion.
generate_signal(failed, a_signal, a_strength, a_probability, p_direction, p_confidence, risk_reward) ==
    LET signal_data == _combine_signals(a_signal, a_strength, a_probability,
                                        p_direction, p_confidence)
        signal == [id |-> next_id, signal |-> signal_data.signal,
                   strength |-> signal_data.strength,
                   success_probability |-> signal_data.success_probability,
                   risk_reward |-> risk_reward, status |-> "pending"]
    IN IF failed
       THEN /\ fusion' = NoFusion
            /\ UNCHANGED <<signal_history, next_id>>
       ELSE IF Emits(signal_data, risk_reward)
       THEN /\ signal_history' = Last(Append(signal_history, signal), SignalHistoryLimit)
            /\ next_id' = next_id + 1
            /\ fusion' = [signal |-> signal_data.signal, strength |-> signal_data.strength,
                          success_probability |-> signal_data.success_probability,
                          risk_reward |-> risk_reward, returned |-> TRUE]
       ELSE /\ fusion' = [signal |-> signal_data.signal, strength |-> signal_data.strength,
                          success_probability |-> signal_data.success_probability,
                          risk_reward |-> risk_reward, returned |-> FALSE]
            /\ UNCHANGED <<signal_history, next_id>>

HistoryIds == {signal_history[i].id : i \in 1..Len(signal_history)}

\* get_signal_by_id for an id that is in the history
get_signal_by_id(id) ==
    signal_history[CHOOSE i \in 1..Len(signal_history) :
                      /\ signal_history[i].id = id
                      /\ \A j \in 1..(i - 1) : signal_history[j].id # id]

StatusOf(id) == IF id \in HistoryIds THEN get_signal_by_id(id).status ELSE "none"

\* update_signal_status(signal_id, status)
update_signal_status(id, status) ==
    IF id \in HistoryIds
    THEN signal_history' = [i \in 1..Len(signal_history) |->
                              IF signal_history[i].id = id
                              THEN [signal_history[i] EXCEPT !.status = status]
                              ELSE signal_history[i]]
    ELSE UNCHANGED signal_history

\* -------------------------------------------------------------- detectors

\* Detector scores are in tenths of a point, strengths in tenths (a strength
\* of 63.3 is 633), the news impact in hundredths.

IctMinDifference == 20
SmcMinDifference == 20
PaMinDifference == 30
MaxStrength == 1000

\* what a detector's analyze met: no bars, an exception inside, fewer bars
\* than every sub-analysis needs, or enough bars
DataOutcomes == {"empty", "raises", "few", "full"}

\* {"error": ...}: a result without the keys signal and strength
ErrorResult == [error |-> TRUE, signal |-> "absent", strength |-> -1]

\* ICTStrategy._generate_signal on the scores it has summed
ict_generate_signal(buy_score, sell_score) ==
    IF buy_score > sell_score + IctMinDifference
    THEN [error |-> FALSE, signal |-> "buy", strength |-> Min2(MaxStrength, buy_score * 10)]
    ELSE IF sell_score > buy_score + IctMinDifference
    THEN [error |-> FALSE, signal |-> "sell", strength |-> Min2(MaxStrength, sell_score * 10)]
    ELSE [error |-> FALSE, signal |-> "neutral", strength |-> 0]

\* SMCStrategy._generate_signal on the scores it has summed
smc_generate_signal(buy_score, sell_score) ==
    IF buy_score > sell_score + SmcMinDifference
    THEN [error |-> FALSE, signal |-> "buy", strength |-> Min2(MaxStrength, buy_score * 10)]
    ELSE IF sell_score > buy_score + SmcMinDifference
    THEN [error |-> FALSE, signal |-> "sell", strength |-> Min2(MaxStrength, sell_score * 10)]
    ELSE [error |-> FALSE, signal |-> "neutral", strength |-> 0]

\* PriceActionStrategy._generate_signal on the scores it has summed
pa_generate_signal(buy_score, sell_score) ==
    IF buy_score > sell_score + PaMinDifference
    THEN [error |-> FALSE, signal |-> "buy", strength |-> Min2(MaxStrength, buy_score * 10)]
    ELSE IF sell_score > buy_score + PaMinDifference
    THEN [error |-> FALSE, signal |-> "sell", strength |-> Min2(MaxStrength, sell_score * 10)]
    ELSE [error |-> FALSE, signal |-> "neutral",
          strength |-> (IF buy_score >= sell_score THEN buy_score ELSE sell_score) * 5]

\* ICTStrategy.analyze: with too few bars every finder returns nothing and
\* the scores are 0
ict_analyze(data, buy_score, sell_score) ==
    IF data \in {"empty", "raises"} THEN ErrorResult
    ELSE IF data = "few" THEN ict_generate_signal(0, 0)
    ELSE ict_generate_signal(buy_score, sell_score)

\* SMCStrategy.analyze
smc_analyze(data, buy_score, sell_score) ==
    IF data \in {"empty", "raises"} THEN ErrorResult
    ELSE IF data = "few" THEN smc_generate_signal(0, 0)
    ELSE smc_generate_signal(buy_score, sell_score)

\* PriceActionStrategy.analyze: the pivot levels are computed from the last
\* bar alone, so their part of the scores is there with too few bars as well
pa_analyze(data, buy_score, sell_score, pivot_buy, pivot_sell) ==
    IF data \in {"empty", "raises"} THEN ErrorResult
    ELSE IF data = "few" THEN pa_generate_signal(pivot_buy, pivot_sell)
    ELSE pa_generate_signal(buy_score + pivot_buy, sell_score + pivot_sell)

\* ---------------------------------------------------------- AnalysisEngine

TimeframeNames == {"M5", "M15", "H1", "H4", "D1"}

\* the order analyze goes through the timeframes
TimeframeOrder == <<"M5", "M15", "H1", "H4", "D1">>

\* timeframe_weights of _create_summary, in hundredths
timeframe_weights ==
    [tf \in TimeframeNames |->
        CASE tf = "M5" -> 5 [] tf = "M15" -> 10 [] tf = "H1" -> 20
          [] tf = "H4" -> 30 [] tf = "D1" -> 35]

\* result.get("signal", "neutral") and result.get("strength", 0)
GetSignal(result) == IF result.error THEN "neutral" ELSE result.signal

GetStrength(result) == IF result.error THEN 0 ELSE result.strength

\* _create_timeframe_summary on the three detector results
_create_timeframe_summary(ict, smc, price_action) ==
    LET signals == <<GetSignal(ict), GetSignal(smc), GetSignal(price_action)>>
        buy_count == Cardinality({i \in 1..3 : signals[i] = "buy"})
        sell_count == Cardinality({i \in 1..3 : signals[i] = "sell"})
        final_signal == IF buy_count > sell_count THEN "buy"
                        ELSE IF sell_count > buy_count THEN "sell"
                        ELSE "neutral"
        confidence == IF buy_count = 3 \/ sell_count = 3 THEN "high"
                      ELSE IF buy_count = 2 \/ sell_count = 2 THEN "medium"
                      ELSE "low"
        avg_strength == (GetStrength(ict) + GetStrength(smc)
                         + GetStrength(price_action)) \div 3
    IN [present |-> TRUE, signal |-> final_signal, confidence |-> confidence,
        strength |-> avg_strength, buy_signals |-> buy_count,
        sell_signals |-> sell_count]

\* a timeframe that is not in results["timeframes"]
NoSummary == [present |-> FALSE, signal |-> "neutral", confidence |-> "low",
              strength |-> 0, buy_signals |-> 0, sell_signals |-> 0]

RECURSIVE SumWeights(_)
SumWeights(tfs) ==
    IF tfs = {} THEN 0
    ELSE LET tf == CHOOSE x \in tfs : TRUE
         IN timeframe_weights[tf] + SumWeights(tfs \ {tf})

Present(timeframes) == {tf \in TimeframeNames : timeframes[tf].present}

Abs(x) == IF x < 0 THEN -x ELSE x

\* the weights of the timeframes without the division by total_weight
UnnormalizedWeights(timeframes) ==
    [tf \in TimeframeNames |-> [num |-> timeframe_weights[tf], den |-> 100]]

\* the weights _create_summary works with: those of the timeframes present
\* are divided by total_weight when it is positive; each is the fraction
\* num / den
NormalizedWeights(timeframes) ==
    LET total_weight == SumWeights(Present(timeframes))
    IN [tf \in TimeframeNames |->
          IF total_weight > 0 /\ tf \in Present(timeframes)
          THEN [num |-> timeframe_weights[tf], den |-> total_weight]
          ELSE [num |-> timeframe_weights[tf], den |-> 100]]

RECURSIVE SumNum(_, _)
SumNum(weights, tfs) ==
    IF tfs = {} THEN 0
    ELSE LET tf == CHOOSE x \in tfs : TRUE
         IN weights[tf].num + SumNum(weights, tfs \ {tf})

\* _identify_key_timeframes(results)
_identify_key_timeframes(timeframes) ==
    {tf \in Present(timeframes) :
        /\ timeframes[tf].signal # "neutral"
        /\ timeframes[tf].confidence \in {"medium", "high"}}

\* the sum without the limits 0 and 100
ProbabilityWithoutClamp(timeframes, signal, signal_strength, news_impact, trend, trend_strength) ==
    LET agreeing == Cardinality({tf \in Present(timeframes) : timeframes[tf].signal = signal})
        up == (signal = "buy" /\ news_impact > 0) \/ (signal = "sell" /\ news_impact < 0)
        down == (signal = "buy" /\ news_impact < 0) \/ (signal = "sell" /\ news_impact > 0)
        news == IF up THEN Min2(Abs(news_impact), 100)
                ELSE IF down THEN -Min2(Abs(news_impact), 150)
                ELSE 0
        higher == "D1" \in Present(timeframes) \/ "H4" \in Present(timeframes)
        along == (signal = "buy" /\ trend = "bullish") \/ (signal = "sell" /\ trend = "bearish")
        across == (signal = "buy" /\ trend = "bearish") \/ (signal = "sell" /\ trend = "bullish")
        correction == IF higher /\ along THEN Min2((trend_strength * 15) \div 10, 150)
                      ELSE IF higher /\ across THEN -Min2((trend_strength * 20) \div 10, 200)
                      ELSE 0
    IN signal_strength + Min2(agreeing * 50, 200) + news + correction

\* _calculate_success_probability: trend and trend_strength are those of
\* the price-action result of D1, or of H4 without D1
_calculate_success_probability(timeframes, signal, signal_strength, news_impact, trend, trend_strength) ==
    LET timeframe_confirmations ==
            Cardinality({tf \in Present(timeframes) : timeframes[tf].signal = signal})
        confirmation_bonus == Min2(timeframe_confirmations * 50, 200)
        with_news == (signal = "buy" /\ news_impact > 0) \/ (signal = "sell" /\ news_impact < 0)
        against_news == (signal = "buy" /\ news_impact < 0) \/ (signal = "sell" /\ news_impact > 0)
        news_correction == IF with_news THEN Min2(Abs(news_impact), 100)
                           ELSE IF against_news THEN -Min2(Abs(news_impact), 150)
                           ELSE 0
        has_trend == "D1" \in Present(timeframes) \/ "H4" \in Present(timeframes)
        with_trend == (signal = "buy" /\ trend = "bullish") \/ (signal = "sell" /\ trend = "bearish")
        against_trend == (signal = "buy" /\ trend = "bearish") \/ (signal = "sell" /\ trend = "bullish")
        trend_correction == IF has_trend /\ with_trend
                            THEN Min2((trend_strength * 15) \div 10, 150)
                            ELSE IF has_trend /\ against_trend
                            THEN -Min2((trend_strength * 20) \div 10, 200)
                            ELSE 0
        total_probability == signal_strength + confirmation_bonus
                             + news_correction + trend_correction
    IN Max2(0, Min2(total_probability, MaxStrength))

\* a verdict that gives the direction to whichever side is ahead
VerdictWithoutMargin(buy_num, sell_num, den) ==
    LET final_signal == IF buy_num > sell_num THEN "buy"
                        ELSE IF sell_num > buy_num THEN "sell"
                        ELSE "neutral"
        strength_num == Max2(buy_num, sell_num)
        capped_num == Min2(strength_num, den)
    IN [signal |-> final_signal,
        strength |-> (capped_num * MaxStrength) \div den,
        confidence |-> IF 100 * capped_num > 70 * den THEN "high"
                       ELSE IF 100 * capped_num > 40 * den THEN "medium"
                       ELSE "low"]

\* the verdict of _create_summary on buy_weight = buy_num / den and
\* sell_weight = sell_num / den: the side that leads by more than 0.1, its
\* weight as the strength, and the tier of that strength
Verdict(buy_num, sell_num, den) ==
    LET final_signal == IF 10 * buy_num > 10 * sell_num + den THEN "buy"
                        ELSE IF 10 * sell_num > 10 * buy_num + den THEN "sell"
                        ELSE "neutral"
        strength_num == IF final_signal = "buy" THEN buy_num
                        ELSE IF final_signal = "sell" THEN sell_num
                        ELSE Max2(buy_num, sell_num)
        capped_num == Min2(strength_num, den)
    IN [signal |-> final_signal,
        strength |-> (capped_num * MaxStrength) \div den,
        confidence |-> IF 100 * capped_num > 70 * den THEN "high"
                       ELSE IF 100 * capped_num > 40 * den THEN "medium"
                       ELSE "low"]

\* _create_summary on the weights given: buy_weight and sell_weight are the
\* fractions buy_num / den and sell_num / den
Summarize(weights, timeframes, news_impact, trend, trend_strength) ==
    LET present == Present(timeframes)
        total == IF present = {} THEN 100
                 ELSE weights[CHOOSE tf \in present : TRUE].den
        buying == {tf \in present : timeframes[tf].signal = "buy"}
        selling == {tf \in present : timeframes[tf].signal = "sell"}
        news == Min2(Abs(news_impact), 100)
        den == 1000 * total
        buy_num == 1000 * SumNum(weights, buying)
                   + (IF news_impact > 0 THEN news * total ELSE 0)
        sell_num == 1000 * SumNum(weights, selling)
                    + (IF news_impact < 0 THEN news * total ELSE 0)
        verdict == Verdict(buy_num, sell_num, den)
    IN [signal |-> verdict.signal, confidence |-> verdict.confidence,
        strength |-> verdict.strength,
        success_probability |->
            _calculate_success_probability(timeframes, verdict.signal, verdict.strength,
                                           news_impact, trend, trend_strength),
        buy_num |-> buy_num, sell_num |-> sell_num, den |-> den,
        weight_num |-> SumNum(weights, present),
        timeframe_num |-> SumNum(weights, buying) + SumNum(weights, selling),
        weight_den |-> total,
        key_timeframes |-> _identify_key_timeframes(timeframes)]

\* _create_summary(results)
_create_summary(timeframes, news_impact, trend, trend_strength) ==
    Summarize(NormalizedWeights(timeframes), timeframes, news_impact, trend, trend_strength)

NoAggregate == [signal |-> "neutral", confidence |-> "low", strength |-> 0,
                success_probability |-> 0, buy_num |-> 0, sell_num |-> 0,
                den |-> 1000, weight_num |-> 0, timeframe_num |-> 0, weight_den |-> 1,
                key_timeframes |-> {}]

\* ----------------------------------------------------------- _merge_levels

MaxLevels == 3

\* Price levels are whole multiples of 2^MaxLevels, so that the repeated
\* halving of the averaging is exact; a threshold is threshold / ThresholdDen.
LevelUnit == 2 ^ MaxLevels

BaseLevels == {10, 11, 12, 13}

LevelValues == {v * LevelUnit : v \in BaseLevels}

ThresholdDen == 10

Thresholds == {0, 1, 2}

LevelLists == UNION {[1..n -> LevelValues] : n \in 0..MaxLevels}

RECURSIVE InsertSorted(_, _)
InsertSorted(done, level) ==
    IF done = <<>> THEN <<level>>
    ELSE IF level < Head(done) THEN <<level>> \o done
    ELSE <<Head(done)>> \o InsertSorted(Tail(done), level)

\* sorted(levels)
RECURSIVE sorted(_)
sorted(levels) ==
    IF levels = <<>> THEN <<>>
    ELSE InsertSorted(sorted(Tail(levels)), Head(levels))

\* the loop of _merge_levels over the levels not yet visited
RECURSIVE MergeLoop(_, _, _)
MergeLoop(merged, rest, threshold) ==
    IF rest = <<>> THEN merged
    ELSE LET level == Head(rest)
             last == merged[Len(merged)]
         IN IF Abs(level - last) * ThresholdDen <= threshold * last
            THEN MergeLoop([merged EXCEPT ![Len(merged)] = (last + level) \div 2],
                           Tail(rest), threshold)
            ELSE MergeLoop(Append(merged, level), Tail(rest), threshold)

\* the loop of a merger that measures a level against the first level of the
\* group and not against the running mean
RECURSIVE MergeLoopAgainstFirst(_, _, _, _)
MergeLoopAgainstFirst(merged, first, rest, threshold) ==
    IF rest = <<>> THEN merged
    ELSE LET level == Head(rest)
             last == merged[Len(merged)]
         IN IF Abs(level - first) * ThresholdDen <= threshold * first
            THEN MergeLoopAgainstFirst([merged EXCEPT ![Len(merged)] = (last + level) \div 2],
                                       first, Tail(rest), threshold)
            ELSE MergeLoopAgainstFirst(Append(merged, level), level, Tail(rest), threshold)

merge_against_first(levels, threshold) ==
    IF levels = <<>> THEN <<>>
    ELSE LET sorted_levels == sorted(levels)
         IN MergeLoopAgainstFirst(<<Head(sorted_levels)>>, Head(sorted_levels),
                                  Tail(sorted_levels), threshold)

\* a merger that leaves out the sorting
merge_unsorted(levels, threshold) ==
    IF levels = <<>> THEN <<>>
    ELSE MergeLoop(<<Head(levels)>>, Tail(levels), threshold)

\* _merge_levels(levels, threshold)
_merge_levels(levels, threshold) ==
    IF levels = <<>> THEN <<>>
    ELSE LET sorted_levels == sorted(levels)
         IN MergeLoop(<<Head(sorted_levels)>>, Tail(sorted_levels), threshold)

NoMerge == [pc |-> "none", levels |-> <<>>, threshold |-> 0, merged |-> <<>>,
            again |-> <<>>]

\* ------------------------------------------------------------ frames at rest

NoAnalysis ==
    [pc |-> "idle", todo |-> <<>>, requested |-> {}, failed |-> {},
     timeframes |-> [tf \in TimeframeNames |-> NoSummary],
     data |-> "none", ict |-> ErrorResult, smc |-> ErrorResult,
     price_action |-> ErrorResult, result |-> "none", summary |-> NoAggregate,
     news |-> 0, trend |-> "sideways", trend_strength |-> 0]

Symbols == <<"EURUSD", "XAUUSD">>

NoCycle == [pc |-> "sleep", todo |-> <<>>, processed |-> {}, failed |-> {}]

\* ------------------------------------------------------------------- Init

\* --------------------------------------- SignalGenerator._calculate_sl_tp

default_stop_loss_pips == 50
default_take_profit_pips == 100

\* Prices are whole numbers of pips and the ATR a multiple of 10 pips, so
\* that 0.1, 0.5 and 1.5 times the ATR are exact. No level is reported by
\* 0: the code reads a level of 0.0 as no level.
NoLevel == 0

\* max(supports_below), or None
NearestSupport(support_levels, entry_price) ==
    LET supports_below == {x \in support_levels : x < entry_price}
    IN IF supports_below = {} THEN NoLevel
       ELSE CHOOSE x \in supports_below : \A y \in supports_below : y <= x

\* min(resistances_above), or None
NearestResistance(resistance_levels, entry_price) ==
    LET resistances_above == {x \in resistance_levels : x > entry_price}
    IN IF resistances_above = {} THEN NoLevel
       ELSE CHOOSE x \in resistances_above : \A y \in resistances_above : x <= y

\* lines 337-367: the stop and the target anchored to a level or to the ATR
AnchoredSlTp(signal, entry_price, atr, support_levels, resistance_levels) ==
    LET nearest_support == NearestSupport(support_levels, entry_price)
        nearest_resistance == NearestResistance(resistance_levels, entry_price)
        near_support(k) == nearest_support # NoLevel /\ entry_price - nearest_support < atr * k
        near_resistance(k) == nearest_resistance # NoLevel
                                 /\ nearest_resistance - entry_price < atr * k
    IN IF signal = "buy"
       THEN [stop_loss |-> IF near_support(2) THEN nearest_support - atr \div 10
                           ELSE entry_price - (atr * 15) \div 10,
             take_profit |-> IF near_resistance(4) THEN nearest_resistance
                             ELSE entry_price + atr * 3]
       ELSE [stop_loss |-> IF near_resistance(2) THEN nearest_resistance + atr \div 10
                           ELSE entry_price + (atr * 15) \div 10,
             take_profit |-> IF near_support(4) THEN nearest_support
                             ELSE entry_price - atr * 3]

\* the stop and the target as anchored, without the minimum distances
SlTpWithoutMinimum(signal, entry_price, has_atr, atr, support_levels, resistance_levels) ==
    AnchoredSlTp(signal, entry_price, atr, support_levels, resistance_levels)

\* _calculate_sl_tp: has_atr is whether _get_atr_value returned a value
_calculate_sl_tp(signal, entry_price, has_atr, atr, support_levels, resistance_levels) ==
    IF ~has_atr
    THEN IF signal = "buy"
         THEN [stop_loss |-> entry_price - default_stop_loss_pips,
               take_profit |-> entry_price + default_take_profit_pips]
         ELSE [stop_loss |-> entry_price + default_stop_loss_pips,
               take_profit |-> entry_price - default_take_profit_pips]
    ELSE LET anchored == AnchoredSlTp(signal, entry_price, atr, support_levels,
                                      resistance_levels)
             min_sl_distance == atr \div 2
             min_tp_distance == atr
             stop_loss ==
                 IF signal = "buy" /\ entry_price - anchored.stop_loss < min_sl_distance
                 THEN entry_price - min_sl_distance
                 ELSE IF signal = "sell" /\ anchored.stop_loss - entry_price < min_sl_distance
                 THEN entry_price + min_sl_distance
                 ELSE anchored.stop_loss
             take_profit ==
                 IF signal = "buy" /\ anchored.take_profit - entry_price < min_tp_distance
                 THEN entry_price + min_tp_distance
                 ELSE IF signal = "sell" /\ entry_price - anchored.take_profit < min_tp_distance
                 THEN entry_price - min_tp_distance
                 ELSE anchored.take_profit
         IN [stop_loss |-> stop_loss, take_profit |-> take_profit]

EntryPrice == 1000

\* support_levels and resistance_levels of the timeframe summaries
PriceLevels == {940, 995, 999, 1001, 1004, 1035}

AtrValues == {0, 10, 20}

NoStops ==
    [pc |-> "idle", signal |-> "buy", entry_price |-> EntryPrice, has_atr |-> FALSE,
     atr |-> 0, support_levels |-> {}, resistance_levels |-> {},
     stop_loss |-> NoLevel, take_profit |-> NoLevel]

\* a call of the RiskManager
Queries ==
    {q \in [success_probability : {850}, sl_distance : {5, 204, 600},
            tp_distance : {250, 1000}, symbol_info : SymbolInfos, max_lot_size : {5, 100},
            margin_rate : {0, 10}, free_margin : {500, 100000},
            total_positions : {0, 2, 5}, symbol_positions : {0, 2},
            account_ok : BOOLEAN, info_ok : BOOLEAN, positions_ok : BOOLEAN] :
        q.symbol_positions <= q.total_positions}

NoQuery ==
    [pc |-> "idle",
     q |-> [success_probability |-> 550, sl_distance |-> 5, tp_distance |-> 250,
            symbol_info |-> CHOOSE i \in SymbolInfos : i.name = "EURUSD",
            max_lot_size |-> 100, margin_rate |-> 0, free_margin |-> 500,
            total_positions |-> 0, symbol_positions |-> 0,
            account_ok |-> TRUE, info_ok |-> TRUE, positions_ok |-> TRUE],
     params |-> DefaultRiskParams, ok |-> FALSE, reason |-> "none"]

\* nothing said yet; the state the handler found when it was called
NoReply == [text |-> "none", id |-> 0, daily_risk |-> 0, weekly_risk |-> 0,
            risk_history |-> <<>>]

Idle == [pc |-> "idle", id |-> 0, risk_amount |-> 0, risk_percent |-> 0, computed |-> FALSE]

Init ==
    /\ now = 0
    /\ ticks = 0
    /\ balance \in Balances
    /\ opened = [i \in Ids |-> 0]
    /\ daily_risk = 0
    /\ weekly_risk = 0
    /\ last_reset_day = 0
    /\ last_reset_week = _get_week_number(0)
    /\ risk_history = <<>>
    /\ signal_history = <<>>
    /\ next_id = 1
    /\ fusion = NoFusion
    /\ pending_signals = {}
    /\ timeout_pc = [i \in Ids |-> "none"]
    /\ tg = Idle
    /\ db = Idle
    /\ an = NoAnalysis
    /\ lm = NoMerge
    /\ cycle = NoCycle
    /\ reply = NoReply
    /\ rm = NoQuery
    /\ st = NoStops

\* ------------------------------------------------------------ environment

\* the calendar advances between two operations
Tick(d) ==
    /\ ticks < MaxTicks
    /\ now' = now + d
    /\ ticks' = ticks + 1
    /\ UNCHANGED <<balance, opened, riskVars, sigVars, tgVars, db>>

\* the balance the broker reports changes (closed trades, deposits)
BalanceChange(b) ==
    /\ b # balance
    /\ balance' = b
    /\ UNCHANGED <<now, ticks, opened, riskVars, sigVars, tgVars, db>>

\* -------------------------------------------------------------- scan loop

\* _trading_loop, one symbol: generate_signal, then calculate_risk_params for
\* the signal made; the test that follows reads signal.success_probability
\* of a dict, raises, and the handler of the loop abandons the cycle
ScanSymbol(failed, a_signal, a_strength, a_probability, p_direction, p_confidence, risk_reward, info_ok) ==
    /\ next_id <= MaxSignals
    /\ generate_signal(failed, a_signal, a_strength, a_probability,
                       p_direction, p_confidence, risk_reward)
    /\ IF next_id' # next_id
       THEN SetTracking(calculate_risk_params(signal_history'[Len(signal_history')],
                                              info_ok, balance, Tracking, now).tracking)
       ELSE UNCHANGED trackVars
    /\ UNCHANGED <<envVars, opened, risk_history, tgVars, db>>

\* ---------------------------------------------------------- Telegram bot

\* send_signal_confirmation for a signal just generated: on a successful
\* send the signal is put into pending_signals and its timeout thread starts
send_signal_confirmation(id, success) ==
    /\ id \in HistoryIds
    /\ StatusOf(id) = "pending"
    /\ timeout_pc[id] = "none"
    /\ Cardinality({i \in Ids : timeout_pc[i] # "none"}) < MaxPending
    /\ success
    /\ pending_signals' = pending_signals \cup {id}
    /\ timeout_pc' = [timeout_pc EXCEPT ![id] = "wait"]
    /\ UNCHANGED <<envVars, opened, riskVars, sigVars, tg, db>>

\* _confirm_signal without the test of the status
TgConfirmStartWithoutStatusTest(id) ==
    /\ tg.pc = "idle"
    /\ id \in HistoryIds
    /\ tg' = [Idle EXCEPT !.pc = "can_open", !.id = id]
    /\ UNCHANGED <<envVars, opened, riskVars, sigVars, pending_signals, timeout_pc, db>>

\* _confirm_signal: look the signal up and test its status
TgConfirmStart(id) ==
    /\ tg.pc = "idle"
    /\ id \in HistoryIds
    /\ StatusOf(id) = "pending"
    /\ tg' = [Idle EXCEPT !.pc = "can_open", !.id = id]
    /\ UNCHANGED <<envVars, opened, riskVars, sigVars, pending_signals, timeout_pc, db>>

\* _confirm_signal: can_open_position
TgCanOpen(account_ok, limit_hit, info_ok, margin_ok) ==
    /\ tg.pc = "can_open"
    /\ LET r == can_open_position(get_signal_by_id(tg.id), account_ok, limit_hit,
                                  info_ok, margin_ok, balance, Tracking, now)
       IN /\ SetTracking(r.tracking)
          /\ tg' = IF r.ok THEN [tg EXCEPT !.pc = "size"] ELSE Idle
    /\ UNCHANGED <<envVars, opened, risk_history, sigVars, pending_signals, timeout_pc, db>>

\* _confirm_signal: calculate_risk_params
TgSize(info_ok) ==
    /\ tg.pc = "size"
    /\ LET r == calculate_risk_params(get_signal_by_id(tg.id), info_ok, balance, Tracking, now)
       IN /\ SetTracking(r.tracking)
          /\ tg' = [tg EXCEPT !.pc = "open", !.risk_amount = r.params.risk_amount,
                              !.risk_percent = r.params.risk_percent,
                              !.computed = r.params.computed]
    /\ UNCHANGED <<envVars, opened, risk_history, sigVars, pending_signals, timeout_pc, db>>

\* _confirm_signal treating a broker error as an execution
TgOpenMarksOnError(ok) ==
    /\ tg.pc = "open"
    /\ tg' = IF ok THEN [tg EXCEPT !.pc = "mark"] ELSE Idle
    /\ opened' = IF ok THEN [opened EXCEPT ![tg.id] = @ + 1] ELSE opened
    /\ IF ok THEN UNCHANGED signal_history ELSE update_signal_status(tg.id, "executed")
    /\ UNCHANGED <<envVars, riskVars, next_id, fusion, pending_signals, timeout_pc, db>>

\* _confirm_signal: broker.open_position
TgOpen(ok) ==
    /\ tg.pc = "open"
    /\ tg' = IF ok THEN [tg EXCEPT !.pc = "mark"] ELSE Idle
    /\ opened' = IF ok THEN [opened EXCEPT ![tg.id] = @ + 1] ELSE opened
    /\ UNCHANGED <<envVars, riskVars, sigVars, pending_signals, timeout_pc, db>>

\* _confirm_signal: update_signal_status(id, "executed")
TgMark ==
    /\ tg.pc = "mark"
    /\ update_signal_status(tg.id, "executed")
    /\ tg' = [tg EXCEPT !.pc = "commit"]
    /\ UNCHANGED <<envVars, opened, riskVars, next_id, fusion, pending_signals, timeout_pc, db>>

\* _confirm_signal: update_risk_history(trade_data)
TgCommit(account_ok) ==
    /\ tg.pc = "commit"
    /\ update_risk_history(tg.id, tg.risk_amount, account_ok)
    /\ tg' = [tg EXCEPT !.pc = "cleanup"]
    /\ UNCHANGED <<envVars, opened, sigVars, pending_signals, timeout_pc, db>>

\* _confirm_signal: the success message, then the signal leaves
\* pending_signals; a failed send raises and skips the removal
TgCleanup(sent) ==
    /\ tg.pc = "cleanup"
    /\ pending_signals' = IF sent THEN pending_signals \ {tg.id} ELSE pending_signals
    /\ tg' = Idle
    /\ UNCHANGED <<envVars, opened, riskVars, sigVars, timeout_pc, db>>

\* _reject_signal: look the signal up and test its status
TgRejectStart(id) ==
    /\ tg.pc = "idle"
    /\ id \in HistoryIds
    /\ StatusOf(id) = "pending"
    /\ tg' = [Idle EXCEPT !.pc = "rej_mark", !.id = id]
    /\ UNCHANGED <<envVars, opened, riskVars, sigVars, pending_signals, timeout_pc, db>>

\* _reject_signal: update_signal_status(id, "rejected")
TgRejectMark ==
    /\ tg.pc = "rej_mark"
    /\ update_signal_status(tg.id, "rejected")
    /\ tg' = [tg EXCEPT !.pc = "rej_cleanup"]
    /\ UNCHANGED <<envVars, opened, riskVars, next_id, fusion, pending_signals, timeout_pc, db>>

\* _reject_signal: the reject message, then the signal leaves pending_signals
TgRejectCleanup(sent) ==
    /\ tg.pc = "rej_cleanup"
    /\ pending_signals' = IF sent THEN pending_signals \ {tg.id} ELSE pending_signals
    /\ tg' = Idle
    /\ UNCHANGED <<envVars, opened, riskVars, sigVars, timeout_pc, db>>

\* _handle_confirmation_timeout: the signal left pending_signals while the
\* thread was waiting
TimeoutGone(id) ==
    /\ timeout_pc[id] = "wait"
    /\ id \notin pending_signals
    /\ timeout_pc' = [timeout_pc EXCEPT ![id] = "done"]
    /\ UNCHANGED <<envVars, opened, riskVars, sigVars, pending_signals, tg, db>>

\* _handle_confirmation_timeout: the time is up, the signal is still in
\* pending_signals; read the signal and test its status
TimeoutCheck(id) ==
    /\ timeout_pc[id] = "wait"
    /\ id \in pending_signals
    /\ timeout_pc' = [timeout_pc EXCEPT ![id] =
                         IF id \in HistoryIds /\ StatusOf(id) = "pending"
                         THEN "expire" ELSE "done"]
    /\ UNCHANGED <<envVars, opened, riskVars, sigVars, pending_signals, tg, db>>

\* _handle_confirmation_timeout: update_signal_status(id, "expired")
TimeoutExpire(id) ==
    /\ timeout_pc[id] = "expire"
    /\ update_signal_status(id, "expired")
    /\ timeout_pc' = [timeout_pc EXCEPT ![id] = "cleanup"]
    /\ UNCHANGED <<envVars, opened, riskVars, next_id, fusion, pending_signals, tg, db>>

\* _handle_confirmation_timeout: the timeout message, then
\* del pending_signals[id]
TimeoutCleanup(id) ==
    /\ timeout_pc[id] = "cleanup"
    /\ pending_signals' = pending_signals \ {id}
    /\ timeout_pc' = [timeout_pc EXCEPT ![id] = "done"]
    /\ UNCHANGED <<envVars, opened, riskVars, sigVars, tg, db>>

\* -------------------------------------------------------------- dashboard

\* show_signal_monitor, "Analiz Et": generate_signal, then
\* calculate_risk_params for the signal shown
DbAnalyze(failed, a_signal, a_strength, a_probability, p_direction, p_confidence, risk_reward, info_ok) ==
    /\ db.pc = "idle"
    /\ next_id <= MaxSignals
    /\ generate_signal(failed, a_signal, a_strength, a_probability,
                       p_direction, p_confidence, risk_reward)
    /\ IF next_id' # next_id
       THEN LET r == calculate_risk_params(signal_history'[Len(signal_history')],
                                           info_ok, balance, Tracking, now)
            IN /\ SetTracking(r.tracking)
               /\ db' = [pc |-> "shown", id |-> next_id,
                         risk_amount |-> r.params.risk_amount,
                         risk_percent |-> r.params.risk_percent,
                         computed |-> r.params.computed]
       ELSE UNCHANGED <<trackVars, db>>
    /\ UNCHANGED <<envVars, opened, risk_history, tgVars>>

\* the page is left without a confirmation
DbLeave ==
    /\ db.pc = "shown"
    /\ db' = Idle
    /\ UNCHANGED <<envVars, opened, riskVars, sigVars, tgVars>>

\* "Islemi Onayla": can_open_position
DbCanOpen(account_ok, limit_hit, info_ok, margin_ok) ==
    /\ db.pc = "shown"
    /\ LET r == can_open_position(get_signal_by_id(db.id), account_ok, limit_hit,
                                  info_ok, margin_ok, balance, Tracking, now)
       IN /\ SetTracking(r.tracking)
          /\ db' = IF r.ok THEN [db EXCEPT !.pc = "open"] ELSE Idle
    /\ UNCHANGED <<envVars, opened, risk_history, sigVars, tgVars>>

\* "Islemi Onayla": broker.open_position
DbOpen(ok) ==
    /\ db.pc = "open"
    /\ db' = IF ok THEN [db EXCEPT !.pc = "mark"] ELSE Idle
    /\ opened' = IF ok THEN [opened EXCEPT ![db.id] = @ + 1] ELSE opened
    /\ UNCHANGED <<envVars, riskVars, sigVars, tgVars>>

\* "Islemi Onayla": update_signal_status(id, "executed")
DbMark ==
    /\ db.pc = "mark"
    /\ update_signal_status(db.id, "executed")
    /\ db' = [db EXCEPT !.pc = "commit"]
    /\ UNCHANGED <<envVars, opened, riskVars, next_id, fusion, tgVars>>

\* "Islemi Onayla": update_risk_history(trade_data)
DbCommit(account_ok) ==
    /\ db.pc = "commit"
    /\ update_risk_history(db.id, db.risk_amount, account_ok)
    /\ db' = Idle
    /\ UNCHANGED <<envVars, opened, sigVars, tgVars>>

\* ------------------------------------------------------------------- Next

\* the inputs of generate_signal: every combination, and the combinations
\* that make one strong buy candidate
AllInputs ==
    [failed : BOOLEAN, a_signal : Directions, a_strength : Strengths,
     a_probability : Probabilities, p_direction : Directions,
     p_confidence : Confidences, risk_reward : RiskRewards]

StrongInputs ==
    [failed : {FALSE}, a_signal : {"buy"}, a_strength : {80},
     a_probability : Probabilities, p_direction : {"buy"},
     p_confidence : {90}, risk_reward : {20}]

Scan(Inputs) ==
    \E x \in Inputs, i \in BOOLEAN :
        ScanSymbol(x.failed, x.a_signal, x.a_strength, x.a_probability,
                   x.p_direction, x.p_confidence, x.risk_reward, i)

TgConfirm ==
    \/ \E id \in Ids : TgConfirmStart(id)
    \/ \E a, l, i, m \in BOOLEAN : TgCanOpen(a, l, i, m)
    \/ \E i \in BOOLEAN : TgSize(i)
    \/ \E ok \in BOOLEAN : TgOpen(ok)
    \/ TgMark
    \/ \E a \in BOOLEAN : TgCommit(a)
    \/ \E sent \in BOOLEAN : TgCleanup(sent)

TgReject ==
    \/ \E id \in Ids : TgRejectStart(id)
    \/ TgRejectMark
    \/ \E sent \in BOOLEAN : TgRejectCleanup(sent)

SendConfirmation ==
    \E id \in Ids, success \in BOOLEAN : send_signal_confirmation(id, success)

Timeout ==
    \/ \E id \in Ids : TimeoutGone(id)
    \/ \E id \in Ids : TimeoutCheck(id)
    \/ \E id \in Ids : TimeoutExpire(id)
    \/ \E id \in Ids : TimeoutCleanup(id)

DbGenerate(Inputs) ==
    \E x \in Inputs, i \in BOOLEAN :
        DbAnalyze(x.failed, x.a_signal, x.a_strength, x.a_probability,
                  x.p_direction, x.p_confidence, x.risk_reward, i)

DbConfirm ==
    \/ DbLeave
    \/ \E a, l, i, m \in BOOLEAN : DbCanOpen(a, l, i, m)
    \/ \E ok \in BOOLEAN : DbOpen(ok)
    \/ DbMark
    \/ \E a \in BOOLEAN : DbCommit(a)

Environment ==
    \/ \E d \in TickDays : Tick(d)
    \/ \E b \in Balances : BalanceChange(b)

\* the risk budget under one confirmation path and a changing environment
NextBudget ==
    /\ \/ Scan(StrongInputs)
       \/ TgConfirm
       \/ Environment
    /\ UNCHANGED engineVars

SpecBudget == Init /\ [][NextBudget]_vars

\* the two confirmation paths side by side, the environment at rest
Next ==
    /\ \/ Scan(StrongInputs)
       \/ DbGenerate(StrongInputs)
       \/ TgConfirm
       \/ DbConfirm
    /\ UNCHANGED engineVars

Spec == Init /\ [][Next]_vars

\* the lifecycle of a signal sent for confirmation
NextLifecycle ==
    /\ \/ Scan(StrongInputs)
       \/ SendConfirmation
       \/ TgConfirm
       \/ TgReject
       \/ Timeout
    /\ UNCHANGED engineVars

SpecLifecycle == Init /\ [][NextLifecycle]_vars

\* a step of the timeout thread of signal id
TimeoutStep(id) ==
    (TimeoutGone(id) \/ TimeoutCheck(id) \/ TimeoutExpire(id) \/ TimeoutCleanup(id))
        /\ UNCHANGED engineVars

\* a step of the Telegram handler that is being run
HandlerStep ==
    /\ tg.pc # "idle"
    /\ (TgConfirm \/ TgReject)
    /\ UNCHANGED engineVars

\* the lifecycle with the timeout threads and the running handler scheduled:
\* a thread that can take a step takes it in the end, and a handler that was
\* entered runs to its return
SpecLifecycleFair ==
    /\ Init
    /\ [][NextLifecycle]_vars
    /\ \A id \in Ids : WF_vars(TimeoutStep(id))
    /\ WF_vars(HandlerStep)

\* sizing and admission for one pending candidate, on the budget earlier
\* trades have left: the counters are drawn from the values committed trades
\* produce, the weekly counter never below the daily one
DailyUsed == {0, 20000, 40000, 50000}
WeeklyUsed == {0, 20000, 40000, 50000, 80000, 90000, 100000}
SuccessProbabilities == {550, 599, 600, 650, 700, 750, 799, 800, 850}

InitSizing ==
    /\ now = 0
    /\ ticks = 0
    /\ balance \in Balances
    /\ opened = [i \in Ids |-> 0]
    /\ daily_risk \in DailyUsed
    /\ weekly_risk \in {w \in WeeklyUsed : w >= daily_risk}
    /\ last_reset_day = 0
    /\ last_reset_week = _get_week_number(0)
    /\ risk_history = <<>>
    /\ \E p \in SuccessProbabilities :
          /\ signal_history = <<[id |-> 1, signal |-> "buy", strength |-> 830,
                                 success_probability |-> p, risk_reward |-> 20,
                                 status |-> "pending"]>>
          /\ fusion = [signal |-> "buy", strength |-> 830,
                       success_probability |-> p, risk_reward |-> 20,
                       returned |-> TRUE]
    /\ next_id = 2
    /\ pending_signals = {}
    /\ timeout_pc = [i \in Ids |-> "none"]
    /\ tg = Idle
    /\ db = Idle
    /\ an = NoAnalysis
    /\ lm = NoMerge
    /\ cycle = NoCycle
    /\ reply = NoReply
    /\ rm = NoQuery
    /\ st = NoStops

NextSizing ==
    /\ TgConfirm
    /\ UNCHANGED engineVars

SpecSizing == InitSizing /\ [][NextSizing]_vars

\* Signal Fusion on every combination of inputs
NextFusion ==
    /\ next_id <= MaxFused
    /\ Scan(AllInputs)
    /\ UNCHANGED engineVars

SpecFusion == Init /\ [][NextFusion]_vars

\* a call of _merge_levels on a list of levels
MergeLevels(levels, threshold) ==
    /\ lm' = [pc |-> "merged", levels |-> levels, threshold |-> threshold,
              merged |-> _merge_levels(levels, threshold), again |-> <<>>]
    /\ UNCHANGED <<tradingVars, an, cycle>>

\* a call of _merge_levels on the list the call before returned
MergeAgain ==
    /\ lm.pc = "merged"
    /\ lm' = [lm EXCEPT !.pc = "twice",
                        !.again = _merge_levels(lm.merged, lm.threshold)]
    /\ UNCHANGED <<tradingVars, an, cycle>>

\* the Level Merger on every list of levels and every threshold
NextMerge ==
    \/ \E levels \in LevelLists, threshold \in Thresholds : MergeLevels(levels, threshold)
    \/ MergeAgain

SpecMerge == Init /\ [][NextMerge]_vars

\* ------------------------------------------------- AnalysisEngine.analyze

\* analyze(symbol, timeframes): the frame before the loop
AnalyzeStart(timeframes) ==
    /\ an.pc \in {"idle", "done"}
    /\ an' = [NoAnalysis EXCEPT
                !.pc = "loop",
                !.requested = timeframes,
                !.todo = SelectSeq(TimeframeOrder, LAMBDA tf : tf \in timeframes)]
    /\ UNCHANGED <<tradingVars, lm, cycle>>

\* one pass of the loop with an empty frame of bars: the timeframe is left out
AnalyzeEmpty ==
    /\ an.pc = "loop" /\ an.todo # <<>>
    /\ an' = [an EXCEPT !.todo = Tail(an.todo),
                        !.failed = an.failed \cup {Head(an.todo)},
                        !.data = "empty"]
    /\ UNCHANGED <<tradingVars, lm, cycle>>

\* one pass of the loop in which the fetch or the summarizing raises: the
\* handler around the whole loop returns the error record
AnalyzeRaises ==
    /\ an.pc = "loop" /\ an.todo # <<>>
    /\ an' = [an EXCEPT !.pc = "done",
                        !.failed = an.failed \cup {Head(an.todo)},
                        !.data = "raises",
                        !.timeframes = [tf \in TimeframeNames |-> NoSummary],
                        !.result = "error"]
    /\ UNCHANGED <<tradingVars, lm, cycle>>

\* one pass of the loop with bars: the three detectors run, each on the same
\* bars and each with or without an exception inside, and the timeframe is
\* summarized
AnalyzeTimeframe(bars, ict_raises, smc_raises, pa_raises, ict, smc, pa, pivots) ==
    /\ an.pc = "loop" /\ an.todo # <<>>
    /\ LET ict_result == ict_analyze(IF ict_raises THEN "raises" ELSE bars, ict[1], ict[2])
           smc_result == smc_analyze(IF smc_raises THEN "raises" ELSE bars, smc[1], smc[2])
           pa_result == pa_analyze(IF pa_raises THEN "raises" ELSE bars,
                                   pa[1], pa[2], pivots[1], pivots[2])
       IN an' = [an EXCEPT
                   !.todo = Tail(an.todo),
                   !.data = bars,
                   !.ict = ict_result, !.smc = smc_result, !.price_action = pa_result,
                   !.timeframes[Head(an.todo)] =
                       _create_timeframe_summary(ict_result, smc_result, pa_result)]
    /\ UNCHANGED <<tradingVars, lm, cycle>>

\* after the loop: the news and the overall summary
AnalyzeFinish(news_impact, trend, trend_strength) ==
    /\ an.pc = "loop" /\ an.todo = <<>>
    /\ an' = [an EXCEPT
                !.pc = "done",
                !.result = "summary",
                !.news = news_impact,
                !.trend = trend,
                !.trend_strength = trend_strength,
                !.summary = _create_summary(an.timeframes, news_impact, trend,
                                            trend_strength)]
    /\ UNCHANGED <<tradingVars, lm, cycle>>

Bars == {"few", "full"}

\* scores <<buy_score, sell_score>> the detectors sum up on full bars
IctScores == {<<0, 0>>, <<80, 0>>, <<0, 50>>, <<10, 0>>}

SmcScores == {<<0, 0>>, <<60, 0>>, <<0, 120>>}

\* price action: the trend, five candles, the momentum signals and the
\* formations; <<170, 200>> is a sell-off of five long candles into support
\* in an uptrend, with three oversold indicators
PaScores == {<<0, 0>>, <<50, 0>>, <<0, 50>>, <<170, 200>>}

\* the pivot part of the price-action scores: s1/s2/s3 and r1/r2/r3 within
\* 0.5 % of the last close
PivotScores == {<<0, 0>>, <<15, 0>>, <<30, 30>>}

\* results["news"]["impact"], in hundredths
NewsImpacts == {-10000, 0, 70}

Trends == {<<"sideways", 0>>, <<"bullish", 100>>, <<"bearish", 100>>}

\* one timeframe at a time, on every detector outcome
NextTimeframe ==
    \/ \E tf \in TimeframeNames : AnalyzeStart({tf})
    \/ AnalyzeEmpty
    \/ AnalyzeRaises
    \/ \E bars \in Bars, ict_raises, smc_raises, pa_raises \in BOOLEAN,
          ict \in IctScores, smc \in SmcScores, pa \in PaScores, pivots \in PivotScores :
          AnalyzeTimeframe(bars, ict_raises, smc_raises, pa_raises, ict, smc, pa, pivots)
    \/ \E news_impact \in NewsImpacts, trend \in Trends :
          AnalyzeFinish(news_impact, trend[1], trend[2])

SpecTimeframe == Init /\ [][NextTimeframe]_vars

\* every selection of timeframes, each timeframe with one detector deciding
NextAggregate ==
    \/ \E timeframes \in (SUBSET TimeframeNames) \ {{}} : AnalyzeStart(timeframes)
    \/ AnalyzeEmpty
    \/ AnalyzeRaises
    \/ \E ict \in {<<0, 0>>, <<80, 0>>, <<0, 50>>} :
          AnalyzeTimeframe("full", FALSE, FALSE, FALSE, ict, <<0, 0>>, <<0, 0>>, <<0, 0>>)
    \/ \E news_impact \in NewsImpacts, trend \in Trends :
          AnalyzeFinish(news_impact, trend[1], trend[2])

SpecAggregate == Init /\ [][NextAggregate]_vars

\* the scores <<ict, smc>> of a timeframe on which the two detectors agree
AgreedScores == {<<<<0, 0>>, <<0, 0>>>>, <<<<80, 0>>, <<60, 0>>>>, <<<<0, 50>>, <<0, 120>>>>}

\* every selection of timeframes, each timeframe with two detectors agreeing
NextKeyTimeframes ==
    \/ \E timeframes \in (SUBSET TimeframeNames) \ {{}} : AnalyzeStart(timeframes)
    \/ AnalyzeEmpty
    \/ \E scores \in AgreedScores :
          AnalyzeTimeframe("full", FALSE, FALSE, FALSE, scores[1], scores[2], <<0, 0>>, <<0, 0>>)
    \/ \E news_impact \in NewsImpacts : AnalyzeFinish(news_impact, "sideways", 0)

SpecKeyTimeframes == Init /\ [][NextKeyTimeframes]_vars

\* ------------------------------------------- ForexTradingBot._trading_loop

\* the top of a cycle: the market data is refreshed and the loop over the
\* symbols starts
CycleStart ==
    /\ cycle.pc = "sleep"
    /\ cycle' = [pc |-> "loop", todo |-> Symbols, processed |-> {}, failed |-> {}]
    /\ UNCHANGED <<tradingVars, an, lm>>

\* the body of the loop for one symbol: analysis, prediction, generate_signal
\* and, for a signal, calculate_risk_params and the test of
\* signal.success_probability. The signal is a dict, so that test raises
\* AttributeError; the handler around the whole loop ends the cycle.
CycleSymbol(x, info_ok) ==
    /\ cycle.pc = "loop" /\ cycle.todo # <<>>
    /\ ScanSymbol(x.failed, x.a_signal, x.a_strength, x.a_probability,
                  x.p_direction, x.p_confidence, x.risk_reward, info_ok)
    /\ IF next_id' # next_id
       THEN cycle' = [cycle EXCEPT !.pc = "sleep",
                                   !.failed = cycle.failed \cup {Head(cycle.todo)}]
       ELSE cycle' = [cycle EXCEPT !.todo = Tail(cycle.todo),
                                   !.processed = cycle.processed \cup {Head(cycle.todo)}]
    /\ UNCHANGED <<an, lm, reply, rm, st>>

\* the loop has run out of symbols: sleep until the next cycle
CycleEnd ==
    /\ cycle.pc = "loop" /\ cycle.todo = <<>>
    /\ cycle' = [cycle EXCEPT !.pc = "sleep"]
    /\ UNCHANGED <<tradingVars, an, lm>>

\* the scan cycles of the trading loop
NextScan ==
    \/ CycleStart
    \/ \E x \in AllInputs, info_ok \in BOOLEAN : CycleSymbol(x, info_ok)
    \/ CycleEnd

SpecScan == Init /\ [][NextScan]_vars

\* ================================================================= claims

RECURSIVE SumRiskPercent(_)
SumRiskPercent(h) ==
    IF h = <<>> THEN 0 ELSE h[1].risk_percent + SumRiskPercent(Tail(h))

Commits(id) == Cardinality({i \in 1..Len(risk_history) : risk_history[i].id = id})

\* a risk query of the Telegram handler that got as far as the sizing:
\* can_open_position returning True, or calculate_risk_params with the
\* account and symbol information at hand
TgQueried ==
    \/ tg.pc = "can_open" /\ tg'.pc = "size"
    \/ tg.pc = "size" /\ tg'.pc = "open" /\ tg'.computed

\* C1: after any sequence of trades approved by can_open_position, sized by
\* calculate_risk_params and committed by update_risk_history, the committed
\* risk stays within the ceilings, also when the balance changes between
\* sizing and commit: daily_risk <= max_daily_risk_percent and
\* weekly_risk <= max_weekly_risk_percent in every reachable state.
C1_CommittedRiskWithinCeilings ==
    /\ daily_risk <= max_daily_risk_percent
    /\ weekly_risk <= max_weekly_risk_percent

\* C2: once a signal is executed, rejected or expired, no later
\* update_signal_status call changes its status.
C2_TerminalStatusIsFinal ==
    [][\A id \in Ids : StatusOf(id) \in Terminal => StatusOf(id)' = StatusOf(id)]_vars

\* C3: when the timeout thread races a manual confirmation or rejection, a
\* signal that became executed or rejected is never afterwards marked
\* expired, and a signal that became expired is never afterwards executed or
\* rejected.
C3_FirstTransitionWins ==
    [][\A id \in Ids :
          /\ StatusOf(id) \in {"executed", "rejected"} => StatusOf(id)' # "expired"
          /\ StatusOf(id) = "expired" => StatusOf(id)' \notin {"executed", "rejected"}]_vars

\* C4: the first risk query after the calendar day changed sets daily_risk
\* to 0; weekly_risk keeps its value while no ISO-week boundary was crossed
\* since the last query and is set to 0 whenever one was.
C4_ResetsAtEveryBoundary ==
    [][TgQueried =>
          /\ now # last_reset_day => daily_risk' = 0
          /\ IsoWeek(now) = IsoWeek(last_reset_day) => weekly_risk' = weekly_risk
          /\ IsoWeek(now) # IsoWeek(last_reset_day) => weekly_risk' = 0]_vars

\* C5: when confirmations of different signals by the Telegram handler and
\* the dashboard button interleave, each signal opened at most once, the sum
\* of the risk% of all trades opened stays within max_daily_risk_percent and
\* max_weekly_risk_percent.
C5_InterleavedTradesWithinCeilings ==
    (\A id \in Ids : opened[id] <= 1) =>
        /\ SumRiskPercent(risk_history) <= max_daily_risk_percent
        /\ SumRiskPercent(risk_history) <= max_weekly_risk_percent

\* C6: daily_risk and weekly_risk grow, and risk_history changes, only in the
\* update_risk_history step of a confirmation whose broker.open_position
\* succeeded; the scan loop, generate_signal, calculate_risk_params and
\* can_open_position never increase a counter.
C6_OnlyTheCommitIncreases ==
    [][(daily_risk' > daily_risk \/ weekly_risk' > weekly_risk
        \/ risk_history' # risk_history)
       => (tg.pc = "commit" /\ tg'.pc = "cleanup" /\ opened[tg.id] > 0)]_vars

\* C7: every executed signal whose confirmation has finished has had its
\* risk committed exactly once.
C7_ExecutedCommittedOnce ==
    \A id \in HistoryIds :
        (StatusOf(id) = "executed" /\ tg.id # id /\ db.id # id) => Commits(id) = 1

\* C8: with the daily or the weekly budget exhausted, can_open_position
\* returns False.
C8_ExhaustedBudgetRefused ==
    [][(tg.pc = "can_open"
        /\ (daily_risk' >= max_daily_risk_percent
            \/ weekly_risk' >= max_weekly_risk_percent))
       => tg'.pc = "idle"]_vars

\* C9: calculate_risk_params returns risk_amount = min(balance*risk_percent,
\* remaining daily budget, remaining weekly budget), and the risk_percent
\* that amount is of the balance.
C9_RiskAmountIsTheMinimum ==
    [][(tg.pc = "size" /\ tg'.pc = "open" /\ tg'.computed) =>
          LET requested == balance * StepRiskPercent(get_signal_by_id(tg.id).success_probability)
              daily_left == (max_daily_risk_percent - daily_risk') * balance
              weekly_left == (max_weekly_risk_percent - weekly_risk') * balance
          IN /\ tg'.risk_amount = Min2(requested, Min2(daily_left, weekly_left))
             /\ tg'.risk_percent * balance = tg'.risk_amount]_vars

\* C9 witness: balance 10000, max daily 5 %, 4 % used, success probability 85
\* gives risk_amount 100 and risk_percent 1
C9_Example ==
    /\ tg.pc = "open"
    /\ tg.computed
    /\ balance = 100
    /\ daily_risk = 40000
    /\ get_signal_by_id(tg.id).success_probability = 850
    /\ tg.risk_amount = 100 * 10000
    /\ tg.risk_percent = 10000

\* C10: every candidate generate_signal returns and every entry of
\* signal_history has direction buy or sell; a neutral blend gives no
\* candidate.
C10_CandidatesAreNeverNeutral ==
    /\ \A i \in 1..Len(signal_history) : signal_history[i].signal \in {"buy", "sell"}
    /\ fusion.returned => fusion.signal \in {"buy", "sell"}

\* C10 witness: with a candidate in the history, a neutral blend was turned
\* down
C10_NeutralTurnedDown ==
    /\ fusion.signal = "neutral"
    /\ fusion.strength > 0
    /\ ~fusion.returned
    /\ Len(signal_history) > 0

\* C11: generate_signal emits a candidate only if the blended strength is
\* >= 40 and the risk/reward ratio is >= min_risk_reward; in every other
\* case it returns None and signal_history is unchanged.
C11_EmitsOnlyPastBothGates ==
    [][(fusion'.returned =>
           /\ fusion'.strength >= MinStrength
           /\ fusion'.risk_reward >= min_risk_reward
           /\ Len(signal_history') = Len(signal_history) + 1
           /\ signal_history'[Len(signal_history')].strength >= MinStrength
           /\ signal_history'[Len(signal_history')].risk_reward >= min_risk_reward)
       /\ ((fusion'.strength < MinStrength \/ fusion'.risk_reward < min_risk_reward) =>
              /\ ~fusion'.returned
              /\ signal_history' = signal_history)]_vars

\* C11 witness: with a candidate in the history, a strong buy or sell blend
\* was turned down for its risk/reward ratio alone
C11_TurnedDownForRiskReward ==
    /\ fusion.signal # "neutral"
    /\ fusion.strength >= MinStrength
    /\ fusion.risk_reward < min_risk_reward
    /\ ~fusion.returned
    /\ Len(signal_history) > 0

\* C13: for any list of positive price levels and any tolerance the output of
\* the Level Merger is sorted strictly ascending, and no two adjacent output
\* levels are within the relative tolerance of each other.
C13_MergedAscendingAndApart ==
    lm.pc # "none" =>
        \A i \in 1..(Len(lm.merged) - 1) :
            /\ lm.merged[i] < lm.merged[i + 1]
            /\ (lm.merged[i + 1] - lm.merged[i]) * ThresholdDen
                   > lm.threshold * lm.merged[i]

\* unsorted input with levels within the tolerance, merged to two levels
C13_MergedOutOfOrderInput ==
    /\ lm.pc = "merged"
    /\ Len(lm.levels) = MaxLevels
    /\ lm.levels[1] > lm.levels[2]
    /\ lm.threshold > 0
    /\ Len(lm.merged) = 2

\* C14: the Level Merger is idempotent, merge(merge(x)) = merge(x) for every
\* input list x and tolerance.
C14_MergeIdempotent ==
    lm.pc = "twice" => lm.again = lm.merged

\* a second merge of a list whose first merge joined levels
C14_MergedTwice ==
    /\ lm.pc = "twice"
    /\ Len(lm.merged) = 2
    /\ Len(lm.levels) = MaxLevels
    /\ lm.threshold > 0

InRange(x) == 0 <= x /\ x <= MaxStrength

\* C12: every strength and probability output lies in [0,100]: each
\* detector's strength, whether it says buy, sell or neutral, the mean
\* strength of a timeframe, the aggregate strength and success_probability,
\* and the blended strength and success_probability of Signal Fusion.
C12_StrengthsWithinRange ==
    /\ \A result \in {an.ict, an.smc, an.price_action} :
           ~result.error => InRange(result.strength)
    /\ \A tf \in TimeframeNames : InRange(an.timeframes[tf].strength)
    /\ InRange(an.summary.strength)
    /\ InRange(an.summary.success_probability)
    /\ InRange(fusion.strength)
    /\ InRange(fusion.success_probability)

\* C15: for any non-empty subset of timeframes present in an analysis the
\* renormalized weights of the present timeframes sum to 1, so the buy_weight
\* and sell_weight the timeframes contribute never exceed 1 together.
C15_RenormalizedWeightsSumToOne ==
    (an.result = "summary" /\ Present(an.timeframes) # {}) =>
        /\ an.summary.weight_num = an.summary.weight_den
        /\ an.summary.timeframe_num <= an.summary.weight_den

\* a summary over some of the requested timeframes only, with votes
C15_SummaryOverSomeTimeframes ==
    /\ an.result = "summary"
    /\ an.failed # {}
    /\ Cardinality(Present(an.timeframes)) >= 2
    /\ an.summary.weight_den < 100
    /\ an.summary.timeframe_num > 0

\* C17: the aggregate signal is buy (sell) exactly when buy_weight
\* (sell_weight) exceeds the other side by more than 0.1, otherwise neutral;
\* the aggregate strength is min(100, winning weight x 100); the confidence
\* is high above 70, medium above 40, else low.
C17_AggregateVerdict ==
    an.result = "summary" =>
        LET buy_num == an.summary.buy_num
            sell_num == an.summary.sell_num
            den == an.summary.den
            winning == IF an.summary.signal = "sell" THEN sell_num
                       ELSE IF an.summary.signal = "buy" THEN buy_num
                       ELSE Max2(buy_num, sell_num)
            percent == Min2(100 * den, 100 * winning)
        IN /\ an.summary.signal = "buy" <=> 10 * (buy_num - sell_num) > den
           /\ an.summary.signal = "sell" <=> 10 * (sell_num - buy_num) > den
           /\ an.summary.signal \in {"buy", "sell", "neutral"}
           /\ an.summary.strength = (10 * percent) \div den
           /\ an.summary.confidence = "high" <=> percent > 70 * den
           /\ an.summary.confidence = "medium" <=> (percent > 40 * den /\ percent <= 70 * den)
           /\ an.summary.confidence = "low" <=> percent <= 40 * den

\* buy_weight 0.62 and sell_weight 0.30 give buy, 62, medium
C17_Example ==
    /\ an.result = "summary"
    /\ 100 * an.summary.buy_num = 62 * an.summary.den
    /\ 100 * an.summary.sell_num = 30 * an.summary.den
    /\ an.summary.signal = "buy"
    /\ an.summary.strength = 620
    /\ an.summary.confidence = "medium"

\* the detectors of the timeframe summarized last that emitted direction d
Votes(d) ==
    Cardinality({k \in {"ict", "smc", "price_action"} : GetSignal(an[k]) = d})

\* C16: the per-timeframe verdict is the majority vote of the three detector
\* signals: its direction is buy or sell only when at least two detectors
\* emitted that direction, its confidence is high when all three agree,
\* medium when two agree and low otherwise, and its strength is the mean of
\* the three detector strengths.
C16_TimeframeMajorityVote ==
    (an.data \in Bars /\ Cardinality(an.requested) = 1) =>
        \A tf \in an.requested :
            LET summary == an.timeframes[tf]
            IN /\ \A d \in {"buy", "sell"} :
                      /\ summary.signal = d => Votes(d) >= 2
                      /\ Votes(d) >= 2 => summary.signal = d
               /\ summary.confidence =
                      (IF Votes("buy") = 3 \/ Votes("sell") = 3 THEN "high"
                       ELSE IF Votes("buy") = 2 \/ Votes("sell") = 2 THEN "medium"
                       ELSE "low")
               /\ summary.strength =
                      (GetStrength(an.ict) + GetStrength(an.smc)
                       + GetStrength(an.price_action)) \div 3

\* the part of C16 that the code keeps: every direction with two votes wins,
\* the tiers and the mean, as in {buy, buy, sell} with {80, 60, 50}
C16_Example ==
    /\ an.data = "full"
    /\ an.ict.signal = "buy" /\ an.ict.strength = 800
    /\ an.smc.signal = "buy" /\ an.smc.strength = 600
    /\ an.price_action.signal = "sell" /\ an.price_action.strength = 500
    /\ \E tf \in an.requested :
          /\ an.timeframes[tf].signal = "buy"
          /\ an.timeframes[tf].confidence = "medium"
          /\ an.timeframes[tf].strength = 633

\* C19: in analyze a failure while processing one timeframe (empty data, or
\* an exception raised while fetching the bars or summarizing the timeframe)
\* does not block the verdict: the result still carries a summary computed
\* from the remaining timeframes, not an error record.
C19_TimeframeFailureKeepsVerdict ==
    (an.pc = "done" /\ an.failed # {}) =>
        /\ an.result = "summary"
        /\ Present(an.timeframes) = {tf \in an.requested : tf \notin an.failed}

\* C20: a detector never raises to its caller: with too few bars or an
\* internal failure its analyze returns a result the Timeframe Summarizer
\* reads as signal neutral and strength 0, and the other two detectors'
\* results and the verdict of the timeframe are still computed.
C20_DegradedDetectorReadsNeutralZero ==
    (an.data \in Bars /\ Cardinality(an.requested) = 1) =>
        /\ \A k \in {"ict", "smc", "price_action"} :
               (an.data = "few" \/ an[k].error) =>
                   /\ GetSignal(an[k]) = "neutral"
                   /\ GetStrength(an[k]) = 0
        /\ \A tf \in an.requested :
               /\ an.timeframes[tf].present
               /\ an.timeframes[tf].buy_signals = Votes("buy")
               /\ an.timeframes[tf].sell_signals = Votes("sell")

\* C18: within one scan cycle a failure while processing one symbol does not
\* prevent the remaining symbols of the cycle from being processed: a cycle
\* that is over has processed every symbol but the failed ones.
C18_FailureLeavesOtherSymbolsProcessed ==
    (cycle.pc = "sleep" /\ cycle.failed # {}) =>
        \A i \in 1..Len(Symbols) :
            Symbols[i] \in cycle.processed \cup cycle.failed

\* the share of max_risk_percent the claim gives to a success probability
ClaimedStep(p) ==
    IF p >= 800 THEN max_risk_percent
    ELSE IF p >= 700 THEN (8 * max_risk_percent) \div 10
    ELSE IF p >= 600 THEN (6 * max_risk_percent) \div 10
    ELSE (5 * max_risk_percent) \div 10

\* C24: the per-trade risk percent chosen by calculate_risk_params is a step
\* function of the success probability p: max_risk_percent for p >= 80,
\* 0.8 x max for 70 <= p < 80, 0.6 x max for 60 <= p < 70 and 0.5 x max below
\* 60; it is non-decreasing in p and never above max_risk_percent.  The
\* percent returned is the chosen one whenever the remaining budget covers it.
C24_RiskPercentStepsWithProbability ==
    (tg.pc = "open" /\ tg.computed) =>
        LET p == get_signal_by_id(tg.id).success_probability
            remaining == Min2(max_daily_risk_percent - daily_risk,
                              max_weekly_risk_percent - weekly_risk)
        IN /\ tg.risk_percent <= max_risk_percent
           /\ ClaimedStep(p) <= remaining => tg.risk_percent = ClaimedStep(p)
           /\ \A q \in SuccessProbabilities :
                  q <= p => StepRiskPercent(q) <= StepRiskPercent(p)

\* a signal of success probability exactly 70 sized at 0.8 x max_risk_percent
C24_EightTenthsAtSeventy ==
    /\ tg.pc = "open" /\ tg.computed
    /\ get_signal_by_id(tg.id).success_probability = 700
    /\ tg.risk_percent = 16000
    /\ max_risk_percent = 20000

\* C28: a signal is executed at most once: for any sequence or interleaving
\* of confirmations of the same signal id through the Telegram handlers,
\* broker.open_position succeeds for that signal at most once and its risk
\* is committed at most once.
C28_ConfirmedAtMostOnce ==
    \A id \in Ids : opened[id] <= 1 /\ Commits(id) <= 1

\* an executed signal that is still offered for confirmation: its handler
\* has returned and its entry is still in pending_signals
C28_ExecutedAndStillOffered ==
    \E id \in HistoryIds :
        /\ opened[id] = 1 /\ Commits(id) = 1
        /\ StatusOf(id) # "pending"
        /\ id \in pending_signals
        /\ tg.pc = "idle"

\* C29: every signal for which send_signal_confirmation succeeded eventually
\* leaves 'pending' and is eventually removed from pending_signals, given
\* that the timeout thread keeps running, also after a refused confirmation.
C29_PendingEventuallySettled ==
    \A id \in Ids :
        /\ (id \in pending_signals) ~> (StatusOf(id) # "pending")
        /\ (id \in pending_signals) ~> (id \notin pending_signals)

\* ---------------------------------------------------------------------
\* one call of the RiskManager on the budget earlier trades have left

\* calculate_risk_params(signal)
QueryParams(q) ==
    /\ rm.pc = "idle"
    /\ LET t2 == IF q.account_ok /\ q.info_ok THEN _update_risk_tracking(Tracking, now)
                 ELSE Tracking
           params == IF q.account_ok /\ q.info_ok THEN RiskParams(q, balance, t2)
                     ELSE DefaultRiskParams
       IN /\ SetTracking(t2)
          /\ rm' = [pc |-> "params", q |-> q, params |-> params, ok |-> FALSE,
                    reason |-> "none"]
    /\ UNCHANGED <<envVars, opened, risk_history, sigVars, pending_signals, timeout_pc,
                   tg, db, an, lm, cycle, reply, st>>

\* can_open_position(signal)
QueryCanOpen(q) ==
    /\ rm.pc = "idle"
    /\ LET r == CanOpen(q, balance, Tracking, now)
       IN /\ SetTracking(r.tracking)
          /\ rm' = [pc |-> "can_open", q |-> q, params |-> r.params, ok |-> r.ok,
                    reason |-> r.reason]
    /\ UNCHANGED <<envVars, opened, risk_history, sigVars, pending_signals, timeout_pc,
                   tg, db, an, lm, cycle, reply, st>>

\* the caller has read the answer
QueryReturn ==
    /\ rm.pc # "idle"
    /\ rm' = NoQuery
    /\ UNCHANGED <<envVars, opened, riskVars, sigVars, pending_signals, timeout_pc,
                   tg, db, an, lm, cycle, reply, st>>

InitQuery ==
    /\ InitSizing
    /\ weekly_risk \in {daily_risk, max_weekly_risk_percent}
    /\ get_signal_by_id(1).success_probability = 850

NextQuery ==
    \/ rm.pc = "idle" /\ \E q \in Queries : QueryParams(q)
    \/ rm.pc = "idle" /\ \E q \in Queries : QueryCanOpen(q)
    \/ QueryReturn

SpecQuery == InitQuery /\ [][NextQuery]_vars

\* ---------------------------------------------------------------------
\* one call of _calculate_sl_tp

CalculateSlTp(signal, has_atr, atr, support_levels, resistance_levels, raises) ==
    /\ st.pc = "idle"
    /\ LET result == _calculate_sl_tp(signal, EntryPrice, has_atr, atr, support_levels,
                                      resistance_levels)
       IN st' = [pc |-> IF raises THEN "none" ELSE "done",
                 signal |-> signal, entry_price |-> EntryPrice, has_atr |-> has_atr,
                 atr |-> atr, support_levels |-> support_levels,
                 resistance_levels |-> resistance_levels,
                 stop_loss |-> IF raises THEN NoLevel ELSE result.stop_loss,
                 take_profit |-> IF raises THEN NoLevel ELSE result.take_profit]
    /\ UNCHANGED <<envVars, opened, riskVars, sigVars, pending_signals, timeout_pc,
                   tg, db, an, lm, cycle, reply, rm>>

\* generate_signal has read the result
SlTpReturn ==
    /\ st.pc # "idle"
    /\ st' = NoStops
    /\ UNCHANGED <<envVars, opened, riskVars, sigVars, pending_signals, timeout_pc,
                   tg, db, an, lm, cycle, reply, rm>>

NextStops ==
    \/ /\ st.pc = "idle"
       /\ \E signal \in {"buy", "sell"}, has_atr, raises \in BOOLEAN, atr \in AtrValues,
             support_levels, resistance_levels \in SUBSET PriceLevels :
             CalculateSlTp(signal, has_atr, atr, support_levels, resistance_levels, raises)
    \/ SlTpReturn

SpecStops == Init /\ [][NextStops]_vars

\* C25: for every candidate whose stop-loss and take-profit were computed
\* with an ATR > 0, the stop lies on the losing side of the entry at a
\* distance of at least 0.5 x ATR and the target on the winning side at a
\* distance of at least 1 x ATR, whatever level or multiple anchored them.
C25_MinimumStopAndTargetDistance ==
    (st.pc = "done" /\ st.has_atr /\ st.atr > 0) =>
        LET risk == IF st.signal = "buy" THEN st.entry_price - st.stop_loss
                    ELSE st.stop_loss - st.entry_price
            reward == IF st.signal = "buy" THEN st.take_profit - st.entry_price
                      ELSE st.entry_price - st.take_profit
        IN /\ 2 * risk >= st.atr
           /\ reward >= st.atr

\* a buy 1 pip above a support and 4 pips below a resistance, ATR 10: the
\* stop is moved from 998 to 995, the target from 1004 to 1010
C25_BothMovedToTheMinimum ==
    /\ st.pc = "done"
    /\ st.has_atr
    /\ st.signal = "buy"
    /\ st.atr = 10
    /\ 999 \in st.support_levels
    /\ 1004 \in st.resistance_levels
    /\ 1001 \notin st.resistance_levels
    /\ st.stop_loss = 995
    /\ st.take_profit = 1010

\* ---------------------------------------------------------------------
\* _confirm_signal and what it tells the user

\* the message of a step of _confirm_signal: the refusal of
\* can_open_position, the broker's error, the success message
Answer(before, after) ==
    IF before.pc = "can_open" /\ after.pc = "idle" THEN "refused"
    ELSE IF before.pc = "open" /\ after.pc = "idle" THEN "error"
    ELSE IF before.pc = "cleanup" THEN "opened"
    ELSE "none"

ConfirmAndReply ==
    /\ TgConfirm
    /\ reply' = IF tg.pc = "idle"
                 THEN [text |-> "none", id |-> tg'.id, daily_risk |-> daily_risk,
                       weekly_risk |-> weekly_risk, risk_history |-> risk_history]
                 ELSE [reply EXCEPT !.text = Answer(tg, tg')]

NextRefusal ==
    /\ \/ Scan(StrongInputs) /\ UNCHANGED reply
       \/ ConfirmAndReply
       \/ (\E d \in {1, DaysPerWeek} : Tick(d)) /\ UNCHANGED reply
    /\ UNCHANGED <<an, lm, cycle, rm, st>>

SpecRefusal == Init /\ [][NextRefusal]_vars

\* the step on which _confirm_signal gives up
ConfirmationFails ==
    /\ tg.pc # "idle"
    /\ reply'.text \in {"refused", "error"}

Agreeing == {tf \in Present(an.timeframes) : an.timeframes[tf].signal = an.summary.signal}

\* the correction for the news: up to +10 with the signal, down to -15 against
SentimentCorrection ==
    LET signal == an.summary.signal
    IN IF (signal = "buy" /\ an.news > 0) \/ (signal = "sell" /\ an.news < 0)
       THEN Min2(Abs(an.news), 100)
       ELSE IF (signal = "buy" /\ an.news < 0) \/ (signal = "sell" /\ an.news > 0)
       THEN -Min2(Abs(an.news), 150)
       ELSE 0

\* the correction for the trend of D1 or H4: up to +15 with the signal, down
\* to -20 against
HigherTrendCorrection ==
    LET signal == an.summary.signal
    IN IF {"D1", "H4"} \cap Present(an.timeframes) = {} THEN 0
       ELSE IF (signal = "buy" /\ an.trend = "bullish") \/ (signal = "sell" /\ an.trend = "bearish")
       THEN Min2((an.trend_strength * 15) \div 10, 150)
       ELSE IF (signal = "buy" /\ an.trend = "bearish") \/ (signal = "sell" /\ an.trend = "bullish")
       THEN -Min2((an.trend_strength * 20) \div 10, 200)
       ELSE 0

Clamped(total) == Max2(0, Min2(total, MaxStrength))

\* C26 as stated: the success probability is strength + agreement bonus +
\* sentiment correction + trend correction clamped to [0,100], the bonus
\* being 5 points per agreeing timeframe beyond the first, capped at 20
C26_BonusBeyondTheFirst ==
    an.result = "summary" =>
        /\ SentimentCorrection \in -150..100
        /\ HigherTrendCorrection \in -200..150
        /\ an.summary.success_probability =
              Clamped(an.summary.strength
                      + Min2(50 * Max2(Cardinality(Agreeing) - 1, 0), 200)
                      + SentimentCorrection + HigherTrendCorrection)

\* C26: the success probability is strength + agreement bonus + sentiment
\* correction + trend correction clamped to [0,100], the bonus being 5
\* points per timeframe whose verdict is the overall signal, the first
\* included, capped at 20; the sentiment correction lies in [-15,+10] and
\* the trend correction in [-20,+15]
C26_BonusPerAgreeingTimeframe ==
    an.result = "summary" =>
        /\ SentimentCorrection \in -150..100
        /\ HigherTrendCorrection \in -200..150
        /\ an.summary.success_probability =
              Clamped(an.summary.strength
                      + Min2(50 * Cardinality(Agreeing), 200)
                      + SentimentCorrection + HigherTrendCorrection)

\* one timeframe alone carries the overall signal and earns 5 points
C26_OneAgreeingTimeframe ==
    /\ an.result = "summary"
    /\ an.summary.signal = "buy"
    /\ Cardinality(Agreeing) = 1
    /\ SentimentCorrection = 0
    /\ HigherTrendCorrection = 0
    /\ an.summary.strength > 0
    /\ an.summary.success_probability = an.summary.strength + 50

\* C27: every timeframe in the overall summary's key_timeframes agrees with
\* the overall signal: its verdict has the direction of the overall signal,
\* and key_timeframes is empty when the overall signal is neutral.
C27_KeyTimeframesAgree ==
    an.result = "summary" =>
        /\ \A tf \in an.summary.key_timeframes :
               an.timeframes[tf].signal = an.summary.signal
        /\ (an.summary.signal = "neutral" => an.summary.key_timeframes = {})

\* ---------------------------------------------------------------------
\* the checks of can_open_position, the lot and the risk it realizes

\* the params of the call on the counters as they stand
ParamsOfQuery == RiskParams(rm.q, balance, Tracking)

\* the first check of the stated order that fails for the call
FirstFailingCheck ==
    IF rm.q.total_positions >= max_open_positions THEN "positions"
    ELSE IF rm.q.symbol_positions >= max_positions_per_symbol THEN "symbol_positions"
    ELSE IF ParamsOfQuery.margin_required > rm.q.free_margin THEN "margin"
    ELSE IF daily_risk >= max_daily_risk_percent \/ weekly_risk >= max_weekly_risk_percent
    THEN "risk_limit"
    ELSE IF ParamsOfQuery.lot_size < 1 THEN "min_lot"
    ELSE IF 10 * rm.q.tp_distance < min_risk_reward * rm.q.sl_distance THEN "risk_reward"
    ELSE "ok"

\* C21: can_open_position checks, in this order, the position-count ceiling,
\* the per-symbol ceiling, the margin, the remaining daily/weekly budget,
\* the minimum lot and the risk/reward floor; the reason returned is that of
\* the first check that fails, and True is returned only when all pass.
C21_FirstFailingCheckIsReported ==
    (rm.pc = "can_open" /\ rm.q.account_ok /\ rm.q.info_ok /\ rm.q.positions_ok) =>
        /\ rm.reason = FirstFailingCheck
        /\ rm.ok <=> FirstFailingCheck = "ok"

\* C22 as stated: the lot calculate_risk_params returns lies between
\* volume_min and min(volume_max, max_lot_size), in every configuration
C22_LotWithinLimits ==
    rm.pc = "params" =>
        /\ rm.q.symbol_info.volume_min <= rm.params.lot_size
        /\ rm.params.lot_size <= Min2(rm.q.symbol_info.volume_max, rm.q.max_lot_size)

\* C22: the lot calculate_risk_params computes is never below volume_min;
\* it is at most min(volume_max, max_lot_size) when volume_min is, and is
\* volume_min itself when volume_min lies above that minimum
C22_LotWithinConsistentLimits ==
    (rm.pc = "params" /\ rm.params.computed) =>
        LET volume_min == rm.q.symbol_info.volume_min
            upper == Min2(rm.q.symbol_info.volume_max, rm.q.max_lot_size)
        IN /\ volume_min <= rm.params.lot_size
           /\ (volume_min <= upper => rm.params.lot_size <= upper)
           /\ (volume_min > upper => rm.params.lot_size = volume_min)

\* a lot the risk would make larger, held at the configured max_lot_size
C22_LotHeldAtConfiguredMaximum ==
    /\ rm.pc = "params"
    /\ rm.params.computed
    /\ rm.params.sl_pips > 0
    /\ rm.q.max_lot_size < rm.q.symbol_info.volume_max
    /\ rm.q.symbol_info.volume_min < rm.q.max_lot_size
    /\ 100 * rm.params.risk_amount
          > rm.q.max_lot_size * rm.params.sl_pips * rm.params.pip_value
    /\ rm.params.lot_size = rm.q.max_lot_size

\* C23: the loss the returned lot implies, lot_size x sl_pips x pip_value,
\* never exceeds the risk_amount calculate_risk_params returns and
\* update_risk_history commits.
C23_RealizedRiskWithinCommitted ==
    rm.pc = "params" =>
        rm.params.lot_size * rm.params.sl_pips * rm.params.pip_value
            <= 100 * rm.params.risk_amount

====
